---- MODULE Spec2Model ----
(***************************************************************************)
(* Model of the bind-args crate: the tokenizer `parse` and the             *)
(* `ArgumentBag` extraction container of src/src/lib.rs, and the command   *)
(* lineage of src/src/args.rs, command.rs, command/help.rs and cmdline.rs  *)
(* (`+flag`, `key=value`, bare-word subcommands, command definitions).     *)
(*                                                                         *)
(* A Rust `String` is modelled as a sequence of one-character strings      *)
(* (ASCII only, so String::len is the length of the sequence).  The raw    *)
(* argument list is a sequence of such strings.                            *)
(***************************************************************************)
EXTENDS Integers, Sequences, FiniteSets, TLC

VARIABLES input, pc, program_name, args, ignored, err, last, calls,
          cmd_def, cmd_args, out

vars == <<input, pc, program_name, args, ignored, err, last, calls,
          cmd_def, cmd_args, out>>

-----------------------------------------------------------------------------
(* Bounds of the model *)

\* largest number of raw elements of an input (program name included)
MaxArgs == 4
\* largest number of accessor calls made on one bag
MaxCalls == 4

-----------------------------------------------------------------------------
(* Raw strings the inputs are drawn from: prefix, body, suffix. *)

Prefixes == { <<>>, <<"-">>, <<"-", "-">> }
Bodies == { <<>>, <<"a">>, <<"a", "a">> }
Suffixes == { <<>>, <<"=", "a">> }

\* and two more: a blank and an option whose value holds a "="
Elems ==
  { p \o b \o s : p \in Prefixes, b \in Bodies, s \in Suffixes }
    \cup { <<" ">>, <<"-", "a", "=", "=">> }

\* names the accessors are called with
Names == { <<"a">>, <<"a", "a">> }

RECURSIVE SeqsUpTo(_, _)
SeqsUpTo(S, n) ==
  IF n = 0 THEN { <<>> }
  ELSE LET shorter == SeqsUpTo(S, n - 1)
       IN shorter \cup { Append(q, e) : q \in { r \in shorter : Len(r) = n - 1 }, e \in S }

\* the first element is the program name: empty or not
ProgNames == { <<>>, <<"a">> }

Inputs ==
  { <<>> } \cup { <<p>> \o r : p \in ProgNames, r \in SeqsUpTo(Elems, MaxArgs - 1) }

-----------------------------------------------------------------------------
(* Arg: the token variants, lib.rs 12-39 *)

Empty == [kind |-> "Empty", name |-> <<>>, value |-> <<>>, position |-> 0]
Switch(n) == [kind |-> "Switch", name |-> n, value |-> <<>>, position |-> 0]
SwitchWithValue(n, v) == [kind |-> "SwitchWithValue", name |-> n, value |-> v, position |-> 0]
Operand(p, v) == [kind |-> "Operand", name |-> <<>>, value |-> v, position |-> p]

\* faulty variant of to_string: every switch is written with two dashes
to_string_two_dashes(arg) ==
  CASE arg.kind = "Empty" -> <<>>
    [] arg.kind = "Switch" -> <<"-", "-">> \o arg.name
    [] arg.kind = "SwitchWithValue" -> <<"-", "-">> \o arg.name \o <<"=">> \o arg.value
    [] OTHER -> arg.value

\* impl Display for Arg
to_string(arg) ==
  CASE arg.kind = "Empty" -> <<>>
    [] arg.kind = "Switch" ->
         IF Len(arg.name) = 1 THEN <<"-">> \o arg.name
         ELSE <<"-", "-">> \o arg.name
    [] arg.kind = "SwitchWithValue" ->
         IF Len(arg.name) = 1 THEN <<"-">> \o arg.name \o <<"=">> \o arg.value
         ELSE <<"-", "-">> \o arg.name \o <<"=">> \o arg.value
    [] OTHER -> arg.value

-----------------------------------------------------------------------------
(* String helpers of the standard library used by parse *)

\* str::strip_prefix: the rest of s after prefix p, when s starts with p
starts_with(s, p) == Len(s) >= Len(p) /\ SubSeq(s, 1, Len(p)) = p
strip_prefix(s, p) == SubSeq(s, Len(p) + 1, Len(s))

\* index of the first "=" of s, 0 when there is none
find_eq(s) ==
  IF \E i \in 1..Len(s) : s[i] = "="
  THEN CHOOSE i \in 1..Len(s) : s[i] = "=" /\ \A j \in 1..(i - 1) : s[j] # "="
  ELSE 0

\* str::split_once('='): name before the first "=", value after it
split_name(s) == SubSeq(s, 1, find_eq(s) - 1)
split_value(s) == SubSeq(s, find_eq(s) + 1, Len(s))

-----------------------------------------------------------------------------
(* parse, lib.rs 315-401 *)

NoErr == [kind |-> "None", text |-> <<>>]

\* faulty variant of classify: the long forms accept a name of one character
classify_short_long_name(arg, operand_count) ==
  IF starts_with(arg, <<"-", "-">>) THEN
    LET value == strip_prefix(arg, <<"-", "-">>) IN
    IF find_eq(value) # 0 THEN
      IF Len(split_name(value)) < 1
      THEN [ok |-> FALSE, tok |-> Empty, err |-> [kind |-> "MalformedOption", text |-> arg]]
      ELSE [ok |-> TRUE, tok |-> SwitchWithValue(split_name(value), split_value(value)), err |-> NoErr]
    ELSE
      IF Len(value) < 1
      THEN [ok |-> FALSE, tok |-> Empty, err |-> [kind |-> "MalformedFlag", text |-> arg]]
      ELSE [ok |-> TRUE, tok |-> Switch(value), err |-> NoErr]
  ELSE IF starts_with(arg, <<"-">>) THEN
    LET value == strip_prefix(arg, <<"-">>) IN
    IF find_eq(value) # 0 THEN
      IF Len(split_name(value)) # 1
      THEN [ok |-> FALSE, tok |-> Empty, err |-> [kind |-> "MalformedOption", text |-> arg]]
      ELSE [ok |-> TRUE, tok |-> SwitchWithValue(split_name(value), split_value(value)), err |-> NoErr]
    ELSE
      IF Len(value) # 1
      THEN [ok |-> FALSE, tok |-> Empty, err |-> [kind |-> "MalformedFlag", text |-> arg]]
      ELSE [ok |-> TRUE, tok |-> Switch(value), err |-> NoErr]
  ELSE [ok |-> TRUE, tok |-> Operand(operand_count, arg), err |-> NoErr]

\* the body of the loop for one element that is neither ignored nor the
\* marker (lib.rs 345-393): the token pushed, or the error returned
classify(arg, operand_count) ==
  IF starts_with(arg, <<"-", "-">>) THEN
    LET value == strip_prefix(arg, <<"-", "-">>) IN
    IF find_eq(value) # 0 THEN
      IF Len(split_name(value)) < 2
      THEN [ok |-> FALSE, tok |-> Empty, err |-> [kind |-> "MalformedOption", text |-> arg]]
      ELSE [ok |-> TRUE, tok |-> SwitchWithValue(split_name(value), split_value(value)), err |-> NoErr]
    ELSE
      IF Len(value) < 2
      THEN [ok |-> FALSE, tok |-> Empty, err |-> [kind |-> "MalformedFlag", text |-> arg]]
      ELSE [ok |-> TRUE, tok |-> Switch(value), err |-> NoErr]
  ELSE IF starts_with(arg, <<"-">>) THEN
    LET value == strip_prefix(arg, <<"-">>) IN
    IF find_eq(value) # 0 THEN
      IF Len(split_name(value)) # 1
      THEN [ok |-> FALSE, tok |-> Empty, err |-> [kind |-> "MalformedOption", text |-> arg]]
      ELSE [ok |-> TRUE, tok |-> SwitchWithValue(split_name(value), split_value(value)), err |-> NoErr]
    ELSE
      IF Len(value) # 1
      THEN [ok |-> FALSE, tok |-> Empty, err |-> [kind |-> "MalformedFlag", text |-> arg]]
      ELSE [ok |-> TRUE, tok |-> Switch(value), err |-> NoErr]
  ELSE [ok |-> TRUE, tok |-> Operand(operand_count, arg), err |-> NoErr]

\* .filter(|s| !s.is_empty()), lib.rs 320-324
not_empty(s) == s # <<>>
filter_args(arguments) == SelectSeq(arguments, not_empty)

\* faulty variant of parse_loop: a malformed element does not stop the loop, and the
\* error of the last malformed element is the one returned
RECURSIVE parse_loop_last_error(_, _, _, _, _)
parse_loop_last_error(rest, parsed, ign, operand_count, saw_end_of_options) ==
  IF rest = <<>> THEN [tag |-> "Ok", args |-> parsed, ignored |-> ign, err |-> NoErr]
  ELSE
    LET arg == Head(rest) IN
    IF saw_end_of_options
    THEN parse_loop_last_error(Tail(rest), parsed, Append(ign, arg), operand_count, TRUE)
    ELSE IF arg = <<"-", "-">>
    THEN parse_loop_last_error(Tail(rest), parsed, ign, operand_count, TRUE)
    ELSE
      LET c == classify(arg, operand_count)
          later == parse_loop_last_error(Tail(rest), parsed, ign, operand_count, FALSE)
      IN
      IF ~c.ok
      THEN IF later.tag = "Err" THEN later
           ELSE [tag |-> "Err", args |-> <<>>, ignored |-> <<>>, err |-> c.err]
      ELSE parse_loop_last_error(Tail(rest), Append(parsed, c.tok), ign,
                      IF c.tok.kind = "Operand" THEN operand_count + 1 ELSE operand_count,
                      FALSE)

\* the for loop of parse over the elements after the program name
RECURSIVE parse_loop(_, _, _, _, _)
parse_loop(rest, parsed, ign, operand_count, saw_end_of_options) ==
  IF rest = <<>> THEN [tag |-> "Ok", args |-> parsed, ignored |-> ign, err |-> NoErr]
  ELSE
    LET arg == Head(rest) IN
    IF saw_end_of_options
    THEN parse_loop(Tail(rest), parsed, Append(ign, arg), operand_count, TRUE)
    ELSE IF arg = <<"-", "-">>
    THEN parse_loop(Tail(rest), parsed, ign, operand_count, TRUE)
    ELSE
      LET c == classify(arg, operand_count) IN
      IF ~c.ok THEN [tag |-> "Err", args |-> <<>>, ignored |-> <<>>, err |-> c.err]
      ELSE parse_loop(Tail(rest), Append(parsed, c.tok), ign,
                      IF c.tok.kind = "Operand" THEN operand_count + 1 ELSE operand_count,
                      FALSE)

\* parse: Ok(bag), Err(ParseError), or the panic of expect("missing program name")
parse(arguments) ==
  LET a == filter_args(arguments) IN
  IF a = <<>>
  THEN [tag |-> "Panic", program_name |-> <<>>, args |-> <<>>, ignored |-> <<>>, err |-> NoErr]
  ELSE LET r == parse_loop(Tail(a), <<>>, <<>>, 0, FALSE)
       IN [tag |-> r.tag, program_name |-> IF r.tag = "Ok" THEN Head(a) ELSE <<>>,
           args |-> r.args, ignored |-> r.ignored, err |-> r.err]

\* raw strings that parse turns into a token, and the marker: two operands,
\* a short and a long flag, a short and a long option
BagElems ==
  { <<"a">>, <<"a", "a">>, <<"-", "a">>, <<"-", "-", "a", "a">>,
    <<"-", "a", "=", "a">>, <<"-", "-", "a", "a", "=", "a">>, <<"-", "-">> }

\* the inputs that give a bag: a program name and tokens
BagInputs == { <<<<"a">>>> \o r : r \in SeqsUpTo(BagElems, MaxArgs - 1) }

-----------------------------------------------------------------------------
(* ArgumentBag accessors, lib.rs 93-283.  Each is a function of the token  *)
(* vector (and the ignored tail) to the new vector and the value returned. *)

Ret(a, ig, ok, val, list) == [args |-> a, ignored |-> ig, ok |-> ok, val |-> val, list |-> list]

\* faulty variant of take: the slot is dropped and the later tokens move up
take_compacts(a, i) == SubSeq(a, 1, i - 1) \o SubSeq(a, i + 1, Len(a))

\* std::mem::take(&mut self.args[i])
take(a, i) == [a EXCEPT ![i] = Empty]

\* remove_flag, lib.rs 105-119: the loop from slot i on
RECURSIVE remove_flag_from(_, _, _, _)
remove_flag_from(a, ig, name, i) ==
  IF i > Len(a) THEN Ret(a, ig, FALSE, <<>>, <<>>)
  ELSE IF a[i].kind # "Switch" THEN remove_flag_from(a, ig, name, i + 1)
  ELSE IF a[i].name # name THEN remove_flag_from(a, ig, name, i + 1)
  ELSE Ret(take(a, i), ig, TRUE, <<>>, <<>>)

\* faulty variant of remove_flag: the flag found is reported and left in its slot
remove_flag_no_take(a, ig, name) ==
  Ret(a, ig, remove_flag_from(a, ig, name, 1).ok, <<>>, <<>>)

remove_flag(a, ig, name) == remove_flag_from(a, ig, name, 1)

\* remove_option, lib.rs 167-196: the loop from slot i on.  The first
\* SwitchWithValue or Switch carrying the name decides; a Switch that is not
\* followed by an Operand returns None at once (line 184).
RECURSIVE remove_option_from(_, _, _, _)
remove_option_from(a, ig, name, i) ==
  IF i > Len(a) THEN Ret(a, ig, FALSE, <<>>, <<>>)
  ELSE IF a[i].kind = "SwitchWithValue" THEN
    IF a[i].name # name THEN remove_option_from(a, ig, name, i + 1)
    ELSE Ret(take(a, i), ig, TRUE, a[i].value, <<>>)
  ELSE IF a[i].kind = "Switch" THEN
    IF a[i].name # name THEN remove_option_from(a, ig, name, i + 1)
    ELSE IF ~(i + 1 <= Len(a) /\ a[i + 1].kind = "Operand")
    THEN Ret(a, ig, FALSE, <<>>, <<>>)
    ELSE Ret(take(take(a, i), i + 1), ig, TRUE, a[i + 1].value, <<>>)
  ELSE remove_option_from(a, ig, name, i + 1)

\* faulty variant of remove_option: for a flag followed by an operand the value is
\* returned and the operand is left in its slot
remove_option_keeps_operand(a, ig, name) ==
  LET r == remove_option_from(a, ig, name, 1) IN
  Ret([i \in 1..Len(a) |->
         IF r.args[i] = Empty /\ a[i].kind = "Operand" THEN a[i] ELSE r.args[i]],
      ig, r.ok, r.val, <<>>)

\* faulty variant of remove_option: a call that finds no value empties the first
\* slot that carries the name
remove_option_takes_flag(a, ig, name) ==
  LET r == remove_option_from(a, ig, name, 1)
      S == { j \in 1..Len(a) : a[j].kind \in {"Switch", "SwitchWithValue"} /\ a[j].name = name }
  IN IF r.ok \/ S = {} THEN r
     ELSE Ret(take(a, CHOOSE i \in S : \A j \in S : i <= j), ig, FALSE, <<>>, <<>>)

\* faulty variant of remove_option: a flag whose next slot holds no operand is
\* given the first operand further on
remove_option_skips_empty(a, ig, name) ==
  LET r == remove_option_from(a, ig, name, 1)
      S == { j \in 1..Len(a) : a[j].kind \in {"Switch", "SwitchWithValue"} /\ a[j].name = name }
      i == CHOOSE i \in S : \A j \in S : i <= j
      later == { j \in (i + 1)..Len(a) : a[j].kind = "Operand" }
  IN IF r.ok \/ S = {} THEN r
     ELSE IF later = {} THEN r
     ELSE LET j == CHOOSE j \in later : \A m \in later : j <= m
          IN Ret(take(take(a, i), j), ig, TRUE, a[j].value, <<>>)

remove_option(a, ig, name) == remove_option_from(a, ig, name, 1)

\* remove_operand, lib.rs 214-224: the loop from slot i on
RECURSIVE remove_operand_from(_, _, _)
remove_operand_from(a, ig, i) ==
  IF i > Len(a) THEN Ret(a, ig, FALSE, <<>>, <<>>)
  ELSE IF a[i].kind # "Operand" THEN remove_operand_from(a, ig, i + 1)
  ELSE Ret(take(a, i), ig, TRUE, a[i].value, <<>>)

\* faulty variant of remove_operand: the last operand is the one removed
remove_operand_last(a, ig) ==
  LET S == { j \in 1..Len(a) : a[j].kind = "Operand" } IN
  IF S = {} THEN Ret(a, ig, FALSE, <<>>, <<>>)
  ELSE LET i == CHOOSE i \in S : \A j \in S : j <= i
       IN Ret(take(a, i), ig, TRUE, a[i].value, <<>>)

remove_operand(a, ig) == remove_operand_from(a, ig, 1)

\* the texts of the slots i..Len(a) that are not Empty, in order
RECURSIVE leftover(_, _)
leftover(a, i) ==
  IF i > Len(a) THEN <<>>
  ELSE IF a[i].kind # "Empty" THEN <<to_string(a[i])>> \o leftover(a, i + 1)
  ELSE leftover(a, i + 1)

\* faulty variant of remove_remaining: the texts are returned and the tokens
\* are left in their slots
remove_remaining_keeps_tokens(a, ig) == Ret(a, ig, TRUE, <<>>, leftover(a, 1))

\* remove_remaining, lib.rs 242-252
remove_remaining(a, ig) ==
  Ret([i \in 1..Len(a) |-> Empty], ig, TRUE, <<>>, leftover(a, 1))

\* faulty variant of remove_ignored: the tail is returned and kept
remove_ignored_keeps_tail(a, ig) == Ret(a, ig, TRUE, <<>>, ig)

\* remove_ignored, lib.rs 266-268
remove_ignored(a, ig) == Ret(a, <<>>, TRUE, <<>>, ig)

\* faulty variant of is_empty: the ignored tail counts too
is_empty_counts_ignored(a, ig) == (\A i \in 1..Len(a) : a[i].kind = "Empty") /\ ig = <<>>

\* is_empty, lib.rs 280-282
is_empty(a, ig) == \A i \in 1..Len(a) : a[i].kind = "Empty"

-----------------------------------------------------------------------------
(* The command lineage.  Args (args.rs 6-11, cmdline.rs 20-25) is a chain: *)
(* each node owns at most one subcommand node, so a tree is modelled as    *)
(* the sequence of its nodes, root first.  A HashSet is a set and a        *)
(* HashMap a function; where the code iterates over one, the order is any. *)

\* faulty variant of trim: nothing is trimmed
trim_nothing(s) == s

RECURSIVE trim_start(_)
trim_start(s) == IF s # <<>> /\ Head(s) = " " THEN trim_start(Tail(s)) ELSE s

RECURSIVE trim_end(_)
trim_end(s) ==
  IF s # <<>> /\ s[Len(s)] = " " THEN trim_end(SubSeq(s, 1, Len(s) - 1)) ELSE s

\* str::trim; " " is the whitespace of the alphabet
trim(s) == trim_end(trim_start(s))

\* Args { name, flags: HashSet::new(), props: HashMap::new(), subcommand: None }
ArgsNode(name) == [name |-> name, flags |-> {}, props |-> [k \in {} |-> <<>>]]

\* HashMap::insert
insert(m, key, value) == [k \in DOMAIN m \cup {key} |-> IF k = key THEN value ELSE m[k]]

\* faulty variant of insert_flag: the flag goes to the root
insert_flag_at_root(result, f) == [result EXCEPT ![1].flags = @ \cup {f}]

\* current.flags.insert(f), current being the deepest node
insert_flag(result, f) == [result EXCEPT ![Len(result)].flags = @ \cup {f}]

\* current.props.insert(key, value)
insert_prop(result, key, value) ==
  [result EXCEPT ![Len(result)].props = insert(@, key, value)]

\* Args::parse_from, args.rs 32-72: the for loop.  `current` is always the
\* node created last, whose subcommand is None, so the test of line 59
\* holds whenever it is reached and the break of line 71 is never taken.
RECURSIVE args_loop(_, _)
args_loop(rest, result) ==
  IF rest = <<>> THEN result
  ELSE
    LET arg == trim(Head(rest)) IN
    IF arg = <<>> THEN args_loop(Tail(rest), result)
    ELSE IF arg = <<"-", "h">> \/ arg = <<"-", "-", "h", "e", "l", "p">>
    THEN args_loop(Tail(rest), insert_flag(result, <<"h", "e", "l", "p">>))
    ELSE IF starts_with(arg, <<"+">>)
    THEN args_loop(Tail(rest), insert_flag(result, strip_prefix(arg, <<"+">>)))
    ELSE IF find_eq(arg) > 1
    THEN args_loop(Tail(rest), insert_prop(result, split_name(arg), split_value(arg)))
    ELSE args_loop(Tail(rest), Append(result, ArgsNode(arg)))

\* Args::parse_from, args.rs 16-75
Args_parse_from(items) ==
  IF items = <<>> THEN <<ArgsNode(<<>>)>>
  ELSE args_loop(Tail(items), <<ArgsNode(Head(items))>>)

\* the help arguments of CmdLine::parse_from, cmdline.rs 54
help_flags ==
  { <<"-", "h">>, <<"+", "h">>, <<"-", "-", "h", "e", "l", "p">>, <<"+", "h", "e", "l", "p">> }

\* CmdLine::parse_from, cmdline.rs 48-92: the for loop
RECURSIVE cmdline_loop(_, _, _)
cmdline_loop(rest, result, path) ==
  IF rest = <<>> THEN [tag |-> "Args", tree |-> result, path |-> <<>>]
  ELSE
    LET arg == trim(Head(rest)) IN
    IF arg = <<>> THEN cmdline_loop(Tail(rest), result, path)
    ELSE IF arg \in help_flags THEN [tag |-> "Help", tree |-> <<>>, path |-> path]
    ELSE IF starts_with(arg, <<"+">>)
    THEN cmdline_loop(Tail(rest), insert_flag(result, strip_prefix(arg, <<"+">>)), path)
    ELSE IF find_eq(arg) > 1
    THEN cmdline_loop(Tail(rest), insert_prop(result, split_name(arg), split_value(arg)), path)
    ELSE cmdline_loop(Tail(rest), Append(result, ArgsNode(arg)), Append(path, arg))

\* CmdLine::parse_from, cmdline.rs 30-95
CmdLine_parse_from(items) ==
  LET name == IF items = <<>> THEN <<>> ELSE Head(items) IN
  cmdline_loop(IF items = <<>> THEN <<>> ELSE Tail(items), <<ArgsNode(name)>>, <<name>>)

\* the blueprints of command.rs 34-111; names[1] is the primary name
Flag(names) == [names |-> names]
Prop(names, required) == [names |-> names, required |-> required]
Command(names, props, flags, commands) ==
  [names |-> names, props |-> props, flags |-> flags, commands |-> commands]

\* no command: the None of Option<&Command>
NoCommand == Command(<<>>, <<>>, <<>>, <<>>)

\* Flag::name, Prop::name, Command::name
primary_name(x) == x.names[1]

\* names.contains(&n)
contains(names, n) == \E i \in 1..Len(names) : names[i] = n

\* list.iter().find(|x| x.names.contains(&n)): the index of the first
\* blueprint that carries the name, 0 for None
find_named(list, n) ==
  LET S == { i \in 1..Len(list) : contains(list[i].names, n) } IN
  IF S = {} THEN 0 ELSE CHOOSE i \in S : \A j \in S : i <= j

get_subcommand(cmd, n) == find_named(cmd.commands, n)

get_flag(cmd, n) == find_named(cmd.flags, n)

\* faulty variant of get_prop: only the primary name is looked up
get_prop_primary_only(cmd, n) ==
  LET S == { i \in 1..Len(cmd.props) : primary_name(cmd.props[i]) = n } IN
  IF S = {} THEN 0 ELSE CHOOSE i \in S : \A j \in S : i <= j

get_prop(cmd, n) == find_named(cmd.props, n)

\* the values of InvalidArguments, command.rs 27-32, and Ok(())
Valid == [tag |-> "Ok", name |-> <<>>, kind |-> "none"]
UnrecognizedArgument(n, kind) == [tag |-> "UnrecognizedArgument", name |-> n, kind |-> kind]
MissingRequiredOptions(n) == [tag |-> "MissingRequiredOptions", name |-> n, kind |-> "none"]

\* required_props of the definition cmd, command.rs 241-245
required_props(cmd) ==
  { primary_name(cmd.props[i]) : i \in { j \in 1..Len(cmd.props) : cmd.props[j].required } }

\* seen, once the loop of command.rs 248-261 has run through the props
seen(cmd, node) ==
  { primary_name(cmd.props[get_prop(cmd, p)]) :
      p \in { q \in DOMAIN node.props :
                get_prop(cmd, q) # 0 /\ cmd.props[get_prop(cmd, q)].required } }

\* faulty variant of validate: the required props are looked for before the
\* props are looked up
RECURSIVE validate_missing_first(_, _, _)
validate_missing_first(cmd, chain, k) ==
  LET node == chain[k]
      bad_flags == { f \in node.flags : get_flag(cmd, f) = 0 }
      bad_props == { p \in DOMAIN node.props : get_prop(cmd, p) = 0 }
      missing == required_props(cmd) \ seen(cmd, node)
  IN
  IF bad_flags # {} THEN { UnrecognizedArgument(f, "flag") : f \in bad_flags }
  ELSE IF missing # {} THEN { MissingRequiredOptions(n) : n \in missing }
  ELSE IF bad_props # {} THEN { UnrecognizedArgument(p, "option") : p \in bad_props }
  ELSE IF k = Len(chain) THEN { Valid }
  ELSE
    LET j == get_subcommand(cmd, chain[k + 1].name) IN
    IF j = 0 THEN { UnrecognizedArgument(chain[k + 1].name, "command") }
    ELSE validate_missing_first(cmd.commands[j], chain, k + 1)

\* Command::_validate, command.rs 230-284, on node k of the chain: the set
\* of values it can return.  The loops of lines 232 and 248 run over a
\* HashSet and a HashMap and return at the first name that is not defined,
\* and line 267 takes the first element of a HashSet difference, so any
\* undefined flag, any undefined prop, any missing name can be the one.
RECURSIVE validate(_, _, _)
validate(cmd, chain, k) ==
  LET node == chain[k]
      bad_flags == { f \in node.flags : get_flag(cmd, f) = 0 }
      bad_props == { p \in DOMAIN node.props : get_prop(cmd, p) = 0 }
      missing == required_props(cmd) \ seen(cmd, node)
  IN
  IF bad_flags # {} THEN { UnrecognizedArgument(f, "flag") : f \in bad_flags }
  ELSE IF bad_props # {} THEN { UnrecognizedArgument(p, "option") : p \in bad_props }
  ELSE IF missing # {} THEN { MissingRequiredOptions(n) : n \in missing }
  ELSE IF k = Len(chain) THEN { Valid }
  ELSE
    LET j == get_subcommand(cmd, chain[k + 1].name) IN
    IF j = 0 THEN { UnrecognizedArgument(chain[k + 1].name, "command") }
    ELSE validate(cmd.commands[j], chain, k + 1)

\* canonical_props, command.rs 212-218: the keys are the primary names; the
\* inserts run in the order of the HashMap, so a key reached from several
\* supplied names keeps the value of any one of them
canonical_props(cmd, node) ==
  LET keys == { primary_name(cmd.props[get_prop(cmd, p)]) : p \in DOMAIN node.props }
      values == { node.props[p] : p \in DOMAIN node.props }
  IN { m \in [keys -> values] :
         \A key \in keys :
           \E p \in DOMAIN node.props :
             primary_name(cmd.props[get_prop(cmd, p)]) = key /\ m[key] = node.props[p] }

\* canonical_flags, command.rs 207-210
canonical_flags(cmd, node) ==
  { primary_name(cmd.flags[get_flag(cmd, f)]) : f \in node.flags }

\* Command::_resolve_aliases, command.rs 204-228, from node k of the chain
\* on: the chains k.. it can leave
RECURSIVE resolve_aliases(_, _, _)
resolve_aliases(cmd, chain, k) ==
  LET node == chain[k]
      heads == { [name |-> node.name, flags |-> canonical_flags(cmd, node), props |-> m] :
                   m \in canonical_props(cmd, node) }
  IN
  IF k = Len(chain) THEN { <<h>> : h \in heads }
  ELSE
    LET subcmd_def == cmd.commands[get_subcommand(cmd, chain[k + 1].name)]
        renamed == [chain EXCEPT ![k + 1].name = primary_name(subcmd_def)]
    IN { <<h>> \o t : h \in heads, t \in resolve_aliases(subcmd_def, renamed, k + 1) }

\* what an operation of the command lineage gave
Out(op, tag, n, kind, tree, path, shown) ==
  [op |-> op, tag |-> tag, name |-> n, kind |-> kind, tree |-> tree, path |-> path,
   shown |-> shown]

NoOut == Out("none", "none", <<>>, "none", <<>>, <<>>, NoCommand)

\* Command::parse_from, command.rs 193-202: the values it can return
Command_parse_from(cmd, items) ==
  LET parsed == Args_parse_from(items) IN
  UNION { IF v.tag = "Ok"
          THEN { Out("Command::parse_from", "Ok", <<>>, "none", t, <<>>, NoCommand) :
                   t \in resolve_aliases(cmd, parsed, 1) }
          ELSE { Out("Command::parse_from", v.tag, v.name, v.kind, <<>>, <<>>, NoCommand) } :
          v \in validate(cmd, parsed, 1) }

\* faulty variant of requested_help: only the flag "help" is looked for
RECURSIVE requested_help_long_only(_, _)
requested_help_long_only(a, k) ==
  IF k > Len(a) THEN [some |-> FALSE, name |-> <<>>]
  ELSE IF <<"h", "e", "l", "p">> \in a[k].flags THEN [some |-> TRUE, name |-> a[k].name]
  ELSE requested_help_long_only(a, k + 1)

\* requested_help, help.rs 6-17: the while loop from node k of the chain on
RECURSIVE requested_help_from(_, _)
requested_help_from(a, k) ==
  IF k > Len(a) THEN [some |-> FALSE, name |-> <<>>]
  ELSE IF <<"h">> \in a[k].flags \/ <<"h", "e", "l", "p">> \in a[k].flags
  THEN [some |-> TRUE, name |-> a[k].name]
  ELSE requested_help_from(a, k + 1)

requested_help(a) == requested_help_from(a, 1)

\* Command::intercept_help, command.rs 176-189: the command whose help is
\* written before the process exits, NoCommand when the call returns
intercept_help(cmd, a) ==
  LET r == requested_help(a) IN
  IF r.some /\ get_subcommand(cmd, r.name) # 0
  THEN cmd.commands[get_subcommand(cmd, r.name)]
  ELSE NoCommand

\* A command definition of three levels: the root with the props p (alias
\* q) and r and the flag f (alias g), its command c (alias d) with the prop
\* p (alias q) and the flag f (alias g), and the command c of that one with
\* the flag f.  The names of siblings are distinct.
App(p_required, r_required, sub_p_required) ==
  Command(<<<<"e">>>>,
          << Prop(<< <<"p">>, <<"q">> >>, p_required), Prop(<< <<"r">> >>, r_required) >>,
          << Flag(<< <<"f">>, <<"g">> >>) >>,
          << Command(<< <<"c">>, <<"d">> >>,
                     << Prop(<< <<"p">>, <<"q">> >>, sub_p_required) >>,
                     << Flag(<< <<"f">>, <<"g">> >>) >>,
                     << Command(<< <<"c">> >>, <<>>, << Flag(<< <<"f">> >>) >>, <<>>) >>) >>)

\* the definitions: each prop required or not
Defs == { App(a, b, c) : a \in BOOLEAN, b \in BOOLEAN, c \in BOOLEAN }

\* command line elements for validation: flags by name, by alias and
\* undefined, props likewise, commands likewise
CmdElems ==
  { <<"+", "f">>, <<"+", "g">>, <<"+", "x">>,
    <<"p", "=", "1">>, <<"q", "=", "2">>, <<"r", "=", "1">>, <<"z", "=", "1">>,
    <<"c">>, <<"d">>, <<"y">> }

CmdInputs == { <<>> } \cup { <<<<"e">>>> \o r : r \in SeqsUpTo(CmdElems, MaxArgs - 1) }

\* command line elements for the chain: two flags, a key with two values and
\* another key, a command, a command with whitespace around it, an element
\* that starts with "=", a blank, and the two help spellings of args.rs 39
ArgsElems ==
  { <<"+", "f">>, <<"+", "g">>,
    <<"p", "=", "1">>, <<"p", "=", "2">>, <<"q", "=", "1">>,
    <<"c">>, <<" ", "d", " ">>, <<"=", "1">>, <<" ">>,
    <<"-", "h">>, <<"-", "-", "h", "e", "l", "p">> }

\* the first element: a program name, or the empty string
ArgsProgNames == { <<"e">>, <<>> }

ArgsInputs ==
  { <<>> } \cup { <<p>> \o r : p \in ArgsProgNames, r \in SeqsUpTo(ArgsElems, MaxArgs - 1) }

\* command line elements for help: the four help arguments, one of them
\* with whitespace around it, a flag, a prop, two commands and a blank
HelpElems ==
  { <<"+", "h">>, <<"+", "h", "e", "l", "p">>, <<"-", "h">>, <<"-", "-", "h", "e", "l", "p">>,
    <<" ", "+", "h", " ">>, <<"+", "f">>, <<"p", "=", "1">>, <<"c">>, <<"d">>, <<" ">> }

\* the first element: a program name, or a help argument
HelpProgNames == { <<"e">>, <<"+", "h">> }

HelpInputs ==
  { <<>> } \cup { <<p>> \o r : p \in HelpProgNames, r \in SeqsUpTo(HelpElems, MaxArgs - 1) }

\* the definition the help is asked of
HelpDefs == { App(FALSE, FALSE, FALSE) }

-----------------------------------------------------------------------------
(* The state machine: an input is parsed once, then accessors are called. *)

NoCall == [op |-> "none", name |-> <<>>, ok |-> FALSE, val |-> <<>>, list |-> <<>>]

Start ==
  /\ pc = "start"
  /\ program_name = <<>>
  /\ args = <<>>
  /\ ignored = <<>>
  /\ err = NoErr
  /\ last = NoCall
  /\ calls = 0
  /\ cmd_args = <<>>
  /\ out = NoOut

\* the bag: any sequence of accessor calls on the bag of a well-formed input
Init == input \in BagInputs /\ cmd_def = NoCommand /\ Start

\* the tokenizer: any input, parsed and then drained
InitParse == input \in Inputs /\ cmd_def = NoCommand /\ Start

Parse ==
  /\ pc = "start"
  /\ LET r == parse(input) IN
       /\ pc' = CASE r.tag = "Ok" -> "bag" [] r.tag = "Err" -> "err" [] OTHER -> "panic"
       /\ program_name' = r.program_name
       /\ args' = r.args
       /\ ignored' = r.ignored
       /\ err' = r.err
  /\ UNCHANGED <<input, last, calls, cmd_def, cmd_args, out>>

Called(op, name, r) ==
  /\ args' = r.args
  /\ ignored' = r.ignored
  /\ last' = [op |-> op, name |-> name, ok |-> r.ok, val |-> r.val, list |-> r.list]
  /\ calls' = calls + 1
  /\ UNCHANGED <<input, pc, program_name, err, cmd_def, cmd_args, out>>

CanCall == pc = "bag" /\ calls < MaxCalls

RemoveFlag == \E n \in Names : CanCall /\ Called("remove_flag", n, remove_flag(args, ignored, n))

RemoveOption == \E n \in Names : CanCall /\ Called("remove_option", n, remove_option(args, ignored, n))

RemoveOperand == CanCall /\ Called("remove_operand", <<>>, remove_operand(args, ignored))

RemoveRemaining == CanCall /\ Called("remove_remaining", <<>>, remove_remaining(args, ignored))

RemoveIgnored == CanCall /\ Called("remove_ignored", <<>>, remove_ignored(args, ignored))

IsEmpty ==
  CanCall /\ Called("is_empty", <<>>, Ret(args, ignored, is_empty(args, ignored), <<>>, <<>>))

Next ==
  \/ Parse
  \/ RemoveFlag
  \/ RemoveOption
  \/ RemoveOperand
  \/ RemoveRemaining
  \/ RemoveIgnored
  \/ IsEmpty

Spec == Init /\ [][Next]_vars

Drain == calls = 0 /\ (RemoveRemaining \/ RemoveIgnored)

NextParse ==
  \/ Parse
  \/ Drain

SpecParse == InitParse /\ [][NextParse]_vars

\* what the bag lineage holds, which the command lineage leaves alone
bag_vars == <<program_name, args, ignored, err, last, calls>>

\* validation: a command line is handed to Command::parse_from of a definition
InitCmd == input \in CmdInputs /\ cmd_def \in Defs /\ Start

\* help: a command line is parsed and the help is looked for
InitHelp == input \in HelpInputs /\ cmd_def \in HelpDefs /\ Start

ArgsParseFrom ==
  /\ pc = "start"
  /\ cmd_args' = Args_parse_from(input)
  /\ pc' = "args"
  /\ UNCHANGED <<input, cmd_def, out, bag_vars>>

CommandParseFrom ==
  /\ pc = "start"
  /\ \E r \in Command_parse_from(cmd_def, input) : out' = r
  /\ pc' = "done"
  /\ UNCHANGED <<input, cmd_def, cmd_args, bag_vars>>

CmdLineParseFrom ==
  /\ pc = "start"
  /\ LET r == CmdLine_parse_from(input) IN
       out' = Out("CmdLine::parse_from", r.tag, <<>>, "none", r.tree, r.path, NoCommand)
  /\ pc' = "done"
  /\ UNCHANGED <<input, cmd_def, cmd_args, bag_vars>>

RequestedHelp ==
  /\ pc = "args"
  /\ LET r == requested_help(cmd_args) IN
       out' = Out("requested_help", IF r.some THEN "Some" ELSE "None", r.name, "none",
                  <<>>, <<>>, NoCommand)
  /\ pc' = "done"
  /\ UNCHANGED <<input, cmd_def, cmd_args, bag_vars>>

\* intercept_help either writes the help and ends the process, or returns
InterceptHelp ==
  /\ pc = "args"
  /\ LET shown == intercept_help(cmd_def, cmd_args) IN
       IF shown # NoCommand
       THEN /\ pc' = "exit"
            /\ out' = Out("intercept_help", "exit", <<>>, "none", <<>>, <<>>, shown)
       ELSE /\ pc' = "done"
            /\ out' = Out("intercept_help", "return", <<>>, "none", <<>>, <<>>, NoCommand)
  /\ UNCHANGED <<input, cmd_def, cmd_args, bag_vars>>

\* the chain: a command line is handed to Args::parse_from
InitArgs == input \in ArgsInputs /\ cmd_def = NoCommand /\ Start

NextArgs == ArgsParseFrom

SpecArgs == InitArgs /\ [][NextArgs]_vars

NextCmd ==
  \/ ArgsParseFrom
  \/ CommandParseFrom

SpecCmd == InitCmd /\ [][NextCmd]_vars

NextHelp ==
  \/ ArgsParseFrom
  \/ RequestedHelp
  \/ InterceptHelp
  \/ CmdLineParseFrom

SpecHelp == InitHelp /\ [][NextHelp]_vars

TypeOK ==
  /\ pc \in {"start", "bag", "err", "panic", "args", "done", "exit"}
  /\ calls \in 0..MaxCalls

-----------------------------------------------------------------------------
(* Vocabulary of the properties *)

\* the tokens the bag was created with
Toks == parse(input).args

\* this step is an accessor call
IsCall == calls' = calls + 1

\* this step is the call op(n)
Calls(op, n) == IsCall /\ last'.op = op /\ last'.name = n

\* the slots of token vector a that hold a flag or option named n
Named(a, n) == { j \in 1..Len(a) : a[j].kind \in {"Switch", "SwitchWithValue"} /\ a[j].name = n }

\* the slots of a that hold a flag named n
Flags(a, n) == { j \in 1..Len(a) : a[j].kind = "Switch" /\ a[j].name = n }

\* slot i of a holds the flag n and slot i + 1 an operand
FlagThenOperand(a, n, i) ==
  /\ i + 1 <= Len(a)
  /\ a[i].kind = "Switch" /\ a[i].name = n
  /\ a[i + 1].kind = "Operand"

\* no slot before i holds an operand
NoOperandBefore(a, i) == \A j \in 1..(i - 1) : a[j].kind # "Operand"

-----------------------------------------------------------------------------
(* C1: the claim as stated.  In a freshly parsed bag where some flag n is  *)
(* immediately followed by an operand: remove_option(n) called first       *)
(* returns the operand's text and consumes both tokens, and a              *)
(* remove_flag(n) right after it returns false; remove_flag(n) called      *)
(* first returns true and consumes only that flag, and right after it      *)
(* remove_option(n) returns None and remove_operand() returns the operand. *)
C1_AsStated ==
  [][(pc = "bag" /\ calls <= 1 /\ IsCall) =>
     \A n \in Names : \A i \in 1..Len(Toks) :
       FlagThenOperand(Toks, n, i) =>
         /\ (calls = 0 /\ Calls("remove_option", n)) =>
              (last'.ok /\ last'.val = Toks[i + 1].value /\ args' = take(take(Toks, i), i + 1))
         /\ (calls = 0 /\ Calls("remove_flag", n)) =>
              (last'.ok /\ args' = take(Toks, i))
         /\ (calls = 1 /\ last.op = "remove_option" /\ last.name = n /\ Calls("remove_flag", n)) =>
              ~last'.ok
         /\ (calls = 1 /\ last.op = "remove_flag" /\ last.name = n /\ Calls("remove_option", n)) =>
              ~last'.ok
         /\ (calls = 1 /\ last.op = "remove_flag" /\ last.name = n /\ Calls("remove_operand", <<>>)) =>
              (last'.ok /\ last'.val = Toks[i + 1].value)
    ]_vars

\* slot i is the first token of a that carries the name n, it is a flag, and
\* an operand follows it
FirstNamedIsFlagThenOperand(a, n, i) ==
  /\ FlagThenOperand(a, n, i)
  /\ \A j \in Named(a, n) : i <= j

(* C1, amended: the same, for the FIRST token named n of the input.        *)
(* remove_option(n) called first returns the operand's text and empties    *)
(* both slots; a remove_flag(n) right after it can only succeed on another *)
(* flag n further on.  remove_flag(n) called first returns true and        *)
(* empties only that slot; right after it remove_option(n) leaves the      *)
(* operand in place and succeeds only on another token named n further on, *)
(* and remove_operand() returns this operand when no operand precedes it.  *)
C1_OrderDecides ==
  [][(pc = "bag" /\ calls <= 1 /\ IsCall) =>
     \A n \in Names : \A i \in 1..Len(Toks) :
       FirstNamedIsFlagThenOperand(Toks, n, i) =>
         /\ (calls = 0 /\ Calls("remove_option", n)) =>
              (last'.ok /\ last'.val = Toks[i + 1].value /\ args' = take(take(Toks, i), i + 1))
         /\ (calls = 0 /\ Calls("remove_flag", n)) =>
              (last'.ok /\ args' = take(Toks, i))
         /\ (calls = 1 /\ last.op = "remove_option" /\ last.name = n /\ Calls("remove_flag", n)) =>
              /\ last'.ok = (Flags(Toks, n) # {i})
              /\ args'[i] = Empty /\ args'[i + 1] = Empty
         /\ (calls = 1 /\ last.op = "remove_flag" /\ last.name = n /\ Calls("remove_option", n)) =>
              /\ args'[i + 1] = Toks[i + 1]
              /\ (Named(Toks, n) = {i} => ~last'.ok)
         /\ (calls = 1 /\ last.op = "remove_flag" /\ last.name = n /\ Calls("remove_operand", <<>>)) =>
              /\ last'.ok
              /\ (NoOperandBefore(Toks, i) => last'.val = Toks[i + 1].value /\ args'[i + 1] = Empty)
    ]_vars

\* remove_flag(n) was called first on a flag n followed by an operand, then
\* remove_option(n) returned None and left the operand in the bag
C1_Witness ==
  \E n \in Names : \E i \in 1..Len(Toks) :
    /\ pc = "bag" /\ calls = 2
    /\ FirstNamedIsFlagThenOperand(Toks, n, i)
    /\ last.op = "remove_option" /\ last.name = n /\ ~last.ok
    /\ args = take(Toks, i)

-----------------------------------------------------------------------------
(* What the input says, read off the raw elements by their indices. *)

Marker == <<"-", "-">>

Least(S) == CHOOSE i \in S : \A j \in S : i <= j

\* index of the first element that is not empty: the one parse takes as the
\* program name (0 when there is none)
NamePos(inp) ==
  LET S == { j \in 1..Len(inp) : inp[j] # <<>> } IN IF S = {} THEN 0 ELSE Least(S)

\* index of the first marker after index p (Len + 1 when there is none)
MarkerPos(inp, p) ==
  LET S == { j \in (p + 1)..Len(inp) : inp[j] = Marker } IN
  IF S = {} THEN Len(inp) + 1 ELSE Least(S)

\* the elements inp[lo..hi] that are not empty, in order
RECURSIVE NonEmptyBetween(_, _, _)
NonEmptyBetween(inp, lo, hi) ==
  IF lo > hi THEN <<>>
  ELSE IF inp[lo] # <<>> THEN <<inp[lo]>> \o NonEmptyBetween(inp, lo + 1, hi)
  ELSE NonEmptyBetween(inp, lo + 1, hi)

\* the arguments written between the program name and the marker
Written(inp) == NonEmptyBetween(inp, NamePos(inp) + 1, MarkerPos(inp, NamePos(inp)) - 1)

\* parse has just returned a bag and remove_remaining() was the only call
DrainedAtOnce == pc = "bag" /\ calls = 1 /\ last.op = "remove_remaining"

-----------------------------------------------------------------------------
(* C2: the claim as stated.  parse then remove_remaining() returns all the *)
(* raw elements after the program name and before the first marker, each   *)
(* as written.                                                             *)
C2_AsStated ==
  DrainedAtOnce =>
    last.list = SubSeq(input, NamePos(input) + 1, MarkerPos(input, NamePos(input)) - 1)

(* C2, amended: parse then remove_remaining() returns the non-empty raw    *)
(* elements that lie after the element taken as program name (the first    *)
(* non-empty one) and before the first marker, in order, each as written.  *)
C2_RoundTrip ==
  DrainedAtOnce => last.list = Written(input)

\* a short flag, a long option and an empty element were written and drained
C2_Witness ==
  /\ DrainedAtOnce
  /\ \E j \in 2..Len(input) : input[j] = <<>>
  /\ \E j \in 1..Len(last.list) : last.list[j] = <<"-", "a">>
  /\ \E j \in 1..Len(last.list) : last.list[j] = <<"-", "-", "a", "a", "=", "a">>

-----------------------------------------------------------------------------
(* C3: the claim as stated.  After remove_flag(x) returned true the next   *)
(* call remove_flag(x) returns false; after remove_option(x) returned a    *)
(* value the next call remove_option(x) returns None.                      *)
C3_AsStated ==
  [][(pc = "bag" /\ IsCall /\ last.ok /\ last'.op = last.op /\ last'.name = last.name
        /\ last.op \in {"remove_flag", "remove_option"})
       => ~last'.ok]_vars

(* C3, amended: the second call returns false (None) when the input held   *)
(* no other flag named x (no other flag or option named x); each           *)
(* successful call consumes one token, so with a duplicate in the bag the  *)
(* second call succeeds on it.                                             *)
C3_SecondCallFails ==
  [][(pc = "bag" /\ IsCall /\ last.ok /\ last'.op = last.op /\ last'.name = last.name)
       => /\ (last.op = "remove_flag" /\ Cardinality(Flags(Toks, last.name)) <= 1) => ~last'.ok
          /\ (last.op = "remove_option" /\ Cardinality(Named(Toks, last.name)) <= 1) => ~last'.ok
          /\ (last.op = "remove_flag" /\ last'.ok) => Flags(args, last.name) # {}
          /\ (last.op = "remove_option" /\ last'.ok) => Named(args, last.name) # {}
    ]_vars

\* the only flag n of the input, not followed by an operand, was removed by
\* the first call (only remove_flag(n) takes that slot alone) and the second
\* call remove_flag(n) returned false
C3_Witness ==
  \E i \in 1..Len(Toks) :
    /\ pc = "bag" /\ calls = 2 /\ Len(Toks) >= 2
    /\ Toks[i].kind = "Switch" /\ Flags(Toks, Toks[i].name) = {i}
    /\ ~FlagThenOperand(Toks, Toks[i].name, i)
    /\ args = take(Toks, i)
    /\ last.op = "remove_flag" /\ last.name = Toks[i].name /\ ~last.ok

-----------------------------------------------------------------------------
\* the slots of a on which remove_option(n) has something to return: an
\* option n, or a flag n with an operand right after it
Valued(a, n) ==
  { j \in 1..Len(a) :
      \/ a[j].kind = "SwitchWithValue" /\ a[j].name = n
      \/ FlagThenOperand(a, n, j) }

\* the value remove_option is to return for slot j
ValueAt(a, j) == IF a[j].kind = "SwitchWithValue" THEN a[j].value ELSE a[j + 1].value

(* C4: remove_option(n) returns the value of the first token that is an    *)
(* option n or a flag n immediately followed by an operand, and returns    *)
(* None only when the bag holds no such token.                             *)
C4_FirstMatch ==
  [][\A n \in Names : (pc = "bag" /\ Calls("remove_option", n)) =>
       IF Valued(args, n) = {} THEN ~last'.ok
       ELSE last'.ok /\ last'.val = ValueAt(args, Least(Valued(args, n)))
    ]_vars

-----------------------------------------------------------------------------
\* every slot of the token vector is Empty
AllConsumed == args = [i \in 1..Len(args) |-> Empty]

(* C10: is_empty() returns true exactly when every token slot is Empty,    *)
(* whatever the ignored tail holds.                                        *)
C10_IsEmpty ==
  /\ (pc = "bag" /\ last.op = "is_empty") => (last.ok <=> AllConsumed)
  /\ pc = "bag" => \A ig \in {<<>>, ignored, <<Marker>>} : is_empty(args, ig) = AllConsumed

\* is_empty() returned true on a bag whose tokens were all consumed while
\* the ignored tail was still there
C10_Witness ==
  /\ pc = "bag" /\ last.op = "is_empty" /\ last.ok
  /\ Len(args) >= 1 /\ ignored # <<>>

-----------------------------------------------------------------------------
(* The grammar of one element, stated on its characters. *)

HasEq(e) == \E k \in 1..Len(e) : e[k] = "="

\* e is written with a double dash, with a single dash
Long(e) == Len(e) >= 2 /\ e[1] = "-" /\ e[2] = "-"
Short(e) == Len(e) >= 1 /\ e[1] = "-" /\ ~Long(e)

\* e is dashes ++ N ++ "=" ++ V with no "=" in N, dashes being d characters
IsOptionText(e, d, N, V) ==
  /\ e = SubSeq(e, 1, d) \o N \o <<"=">> \o V
  /\ ~HasEq(N)

\* the pieces e can be cut into after d dashes
Cuts(e, d) == { SubSeq(e, i, j) : i \in (d + 1)..(Len(e) + 1), j \in d..Len(e) }

\* token t is what the grammar gives for the well-formed element e
GrammarToken(e, t) ==
  \/ /\ Long(e)
     /\ \E N \in Cuts(e, 2), V \in Cuts(e, 2) :
          IsOptionText(e, 2, N, V) /\ Len(N) >= 2 /\ t.kind = "SwitchWithValue"
            /\ t.name = N /\ t.value = V
  \/ /\ Long(e) /\ ~HasEq(e) /\ Len(e) - 2 >= 2
     /\ t.kind = "Switch" /\ t.name = SubSeq(e, 3, Len(e))
  \/ /\ Short(e)
     /\ \E N \in Cuts(e, 1), V \in Cuts(e, 1) :
          IsOptionText(e, 1, N, V) /\ Len(N) = 1 /\ t.kind = "SwitchWithValue"
            /\ t.name = N /\ t.value = V
  \/ /\ Short(e) /\ ~HasEq(e) /\ Len(e) - 1 = 1
     /\ t.kind = "Switch" /\ t.name = SubSeq(e, 2, Len(e))
  \/ /\ ~Long(e) /\ ~Short(e)
     /\ t.kind = "Operand" /\ t.value = e

\* the length of the name of a dashed element: what follows the dashes, up
\* to the first "=" when there is one
NameLen(e, d) ==
  IF HasEq(e) THEN Least({ k \in 1..Len(e) : e[k] = "=" }) - 1 - d ELSE Len(e) - d

\* e is malformed
Malformed(e) ==
  \/ Long(e) /\ NameLen(e, 2) < 2
  \/ Short(e) /\ NameLen(e, 1) # 1

\* the error the grammar gives for a malformed element
MalformedKind(e) == IF HasEq(e) THEN "MalformedOption" ELSE "MalformedFlag"

\* the positions of Written(input) that hold a malformed element
MalformedAt(w) == { j \in 1..Len(w) : Malformed(w[j]) }

(* C5: every element between the program name and the marker is           *)
(* classified by the grammar: `--N=V` with len(N) >= 2 is Option(N,V),     *)
(* `--N` with len(N) >= 2 is Flag(N), `-n=V` and `-n` with len(n) = 1 are  *)
(* Option(n,V) and Flag(n), a dashed element with a name of another length *)
(* is MalformedOption when it contains `=` and MalformedFlag otherwise,    *)
(* and any other element is an Operand.                                    *)
C5_Grammar ==
  LET w == Written(input) IN
  /\ (pc = "bag" /\ calls = 0) =>
       /\ Len(args) = Len(w)
       /\ \A j \in 1..Len(w) : ~Malformed(w[j]) /\ GrammarToken(w[j], args[j])
  /\ pc = "err" =>
       \E j \in 1..Len(w) : Malformed(w[j]) /\ err.kind = MalformedKind(w[j]) /\ err.text = w[j]

\* a bag with a long option, a short flag and an operand that looks like an
\* option but has no dash
C5_Witness ==
  /\ pc = "bag" /\ calls = 0 /\ Len(args) = 3
  /\ \E j \in 1..3 : args[j].kind = "SwitchWithValue" /\ Len(args[j].name) = 2
  /\ \E j \in 1..3 : args[j].kind = "Switch" /\ Len(args[j].name) = 1
  /\ \E j \in 1..3 : args[j].kind = "Operand" /\ HasEq(args[j].value)

(* C6: when an element between the program name and the marker is          *)
(* malformed, parse returns the error of the leftmost malformed element,   *)
(* with its raw text, and no bag, whatever follows it.                     *)
C6_LeftmostError ==
  LET w == Written(input) IN
  (pc # "start" /\ MalformedAt(w) # {}) =>
     /\ pc = "err"
     /\ err.kind = MalformedKind(w[Least(MalformedAt(w))])
     /\ err.text = w[Least(MalformedAt(w))]
     /\ program_name = <<>> /\ args = <<>> /\ ignored = <<>>

\* an error for the first of two malformed elements of different kinds, with
\* a well-formed element before it
C6_Witness ==
  LET w == Written(input) IN
  /\ pc = "err"
  /\ Cardinality(MalformedAt(w)) = 2
  /\ Least(MalformedAt(w)) = 2
  /\ \E j \in MalformedAt(w) : MalformedKind(w[j]) # err.kind

-----------------------------------------------------------------------------
(* C7: after the first marker every raw element, empty strings included,   *)
(* goes verbatim and in order to the ignored list and gives no token and   *)
(* no error; the marker is in neither list.                                *)
C7_IgnoredVerbatim ==
  LET m == MarkerPos(input, NamePos(input)) IN
  /\ (pc = "bag" /\ calls = 0 /\ m <= Len(input)) =>
       /\ ignored = SubSeq(input, m + 1, Len(input))
       /\ Len(args) = Len(Written(input))
       /\ \A j \in 1..Len(args) : to_string(args[j]) # Marker
  /\ pc = "err" => MalformedAt(Written(input)) # {}

-----------------------------------------------------------------------------
\* e is empty or holds only whitespace
IsBlank(e) == \A k \in 1..Len(e) : e[k] = " "

(* C8: an element after the program name that is empty or only whitespace  *)
(* is skipped: it gives no token and does not count as an operand.         *)
C8_BlankSkipped ==
  LET w == Written(input) IN
  (pc = "bag" /\ calls = 0) =>
     /\ Len(args) = Cardinality({ j \in 1..Len(w) : ~IsBlank(w[j]) })
     /\ \A j \in 1..Len(args) : args[j].kind = "Operand" =>
          /\ ~IsBlank(args[j].value)
          /\ args[j].position = Cardinality({ k \in 1..(j - 1) : args[k].kind = "Operand" })

-----------------------------------------------------------------------------
(* C9: the first element of the input is the program name, and an empty    *)
(* input is parsed to a bag with the empty program name and no tokens.     *)
C9_ProgramName ==
  pc # "start" =>
     /\ pc # "panic"
     /\ pc = "bag" => program_name = (IF input = <<>> THEN <<>> ELSE input[1])
     /\ input = <<>> => (pc = "bag" /\ args = <<>>)

-----------------------------------------------------------------------------
\* the slots of a that still hold a token
Present(a) == { j \in 1..Len(a) : a[j] # Empty }

\* the raw elements written after the marker
IgnoredTail(inp) == SubSeq(inp, MarkerPos(inp, NamePos(inp)) + 1, Len(inp))

(* C11: in any bag state remove_remaining() returns the text of every      *)
(* token not yet consumed, each as it was written, in the original order,  *)
(* and nothing of the ignored tail, which it leaves alone; after it every  *)
(* slot is Empty, and once every slot is Empty this stays so, is_empty()   *)
(* returns true and remove_remaining() returns the empty list.             *)
C11_RemoveRemaining ==
  [][(pc = "bag" /\ IsCall) =>
       /\ last'.op = "remove_remaining" =>
            /\ Len(last'.list) = Cardinality(Present(args))
            /\ \A j \in Present(args) :
                 last'.list[Cardinality({ k \in Present(args) : k <= j })] = Written(input)[j]
            /\ ignored' = ignored
            /\ AllConsumed'
       /\ AllConsumed =>
            /\ AllConsumed'
            /\ last'.op = "is_empty" => last'.ok
            /\ last'.op = "remove_remaining" => last'.list = <<>>
    ]_vars

\* remove_remaining() returned some of the tokens of the input, others
\* having been consumed before it
C11_Witness ==
  /\ pc = "bag" /\ calls >= 2 /\ last.op = "remove_remaining"
  /\ Len(last.list) >= 1 /\ Len(last.list) < Len(args)
  /\ AllConsumed

-----------------------------------------------------------------------------
(* C12: parse leaves in the ignored tail the raw elements written after    *)
(* the marker, in order; remove_ignored() returns the tail as it is,       *)
(* empties it and changes no token slot, so the first call returns the     *)
(* whole tail and every later one the empty list; no other accessor        *)
(* changes the tail.                                                       *)
C12_IgnoredTail ==
  /\ [](pc = "bag" => ignored \in {<<>>, IgnoredTail(input)})
  /\ []((pc = "bag" /\ calls = 0) => ignored = IgnoredTail(input))
  /\ [][(pc = "bag" /\ IsCall) =>
          /\ last'.op = "remove_ignored" =>
               (last'.list = ignored /\ ignored' = <<>> /\ args' = args)
          /\ last'.op # "remove_ignored" => ignored' = ignored
       ]_vars

\* remove_ignored() returned a tail of two different elements after another
\* accessor had been called
C12_Witness ==
  /\ pc = "bag" /\ calls >= 2 /\ last.op = "remove_ignored"
  /\ Len(last.list) = 2 /\ last.list[1] # last.list[2]
  /\ last.list = IgnoredTail(input)
  /\ ignored = <<>>

-----------------------------------------------------------------------------
\* the slots that the call changes
Changed == { i \in 1..Len(args) : args'[i] # args[i] }

(* C13: the token vector keeps its length through every accessor call; a   *)
(* slot holds either Empty or the token parse put there, position          *)
(* included; a call only ever turns slots into Empty, an Empty slot stays  *)
(* Empty, and a remove_flag or remove_operand that succeeds empties one    *)
(* slot, a remove_option that succeeds one or two.                         *)
C13_SlotsKept ==
  /\ [](pc = "bag" =>
          /\ Len(args) = Len(Toks)
          /\ \A i \in 1..Len(args) : args[i] \in {Empty, Toks[i]})
  /\ [][(pc = "bag" /\ IsCall) =>
          /\ Len(args') = Len(args)
          /\ \A i \in 1..Len(args) :
               /\ args[i] = Empty => args'[i] = Empty
               /\ args'[i] \in {Empty, args[i]}
          /\ (last'.op \in {"remove_flag", "remove_operand"} /\ last'.ok) =>
               Cardinality(Changed) = 1
          /\ (last'.op = "remove_option" /\ last'.ok) => Cardinality(Changed) \in {1, 2}
       ]_vars

\* after two calls a slot is Empty and a later slot still holds the second
\* operand of the input with its position
C13_Witness ==
  /\ pc = "bag" /\ calls >= 2
  /\ \E i \in 1..Len(args) : \E j \in (i + 1)..Len(args) :
       /\ args[i] = Empty
       /\ args[j].kind = "Operand" /\ args[j].position = 1 /\ args[j] = Toks[j]

-----------------------------------------------------------------------------
(* Vocabulary of the command lineage: what a definition says of a chain,   *)
(* read off the names of the blueprints.                                   *)

\* the chain Args::parse_from gives for the input
Parsed == Args_parse_from(input)

Greatest(S) == CHOOSE i \in S : \A j \in S : j <= i

\* n is the primary name or an alias of one of the blueprints of list
Resolves(list, n) ==
  \E i \in 1..Len(list) : \E m \in 1..Len(list[i].names) : list[i].names[m] = n

\* the blueprint of list that carries the name n
Carrier(list, n) ==
  list[CHOOSE i \in 1..Len(list) : \E m \in 1..Len(list[i].names) : list[i].names[m] = n]

\* the primary name of the blueprint of list that carries the name n
Canonical(list, n) == Carrier(list, n).names[1]

\* the definition paired with node k of the chain a: the root definition d
\* for the root, else the child, carrying the name of node k, of the
\* definition paired with node k - 1; NoCommand when there is none
RECURSIVE DefAt(_, _, _)
DefAt(d, a, k) ==
  IF k = 1 THEN d
  ELSE LET up == DefAt(d, a, k - 1) IN
       IF ~Resolves(up.commands, a[k].name) THEN NoCommand
       ELSE Carrier(up.commands, a[k].name)

UnknownFlags(d, node) == { f \in node.flags : ~Resolves(d.flags, f) }

UnknownProps(d, node) == { p \in DOMAIN node.props : ~Resolves(d.props, p) }

\* the required props of d that node supplies under none of their names
Unsupplied(d, node) ==
  { i \in 1..Len(d.props) :
      /\ d.props[i].required
      /\ \A m \in 1..Len(d.props[i].names) : d.props[i].names[m] \notin DOMAIN node.props }

\* node k has a subcommand and d has no command of that name
UnknownCommand(d, a, k) == k < Len(a) /\ ~Resolves(d.commands, a[k + 1].name)

NodeOk(d, a, k) ==
  /\ UnknownFlags(d, a[k]) = {}
  /\ UnknownProps(d, a[k]) = {}
  /\ Unsupplied(d, a[k]) = {}
  /\ ~UnknownCommand(d, a, k)

\* the nodes of a that have no definition or do not satisfy theirs
Failing(d, a) ==
  { k \in 1..Len(a) : DefAt(d, a, k) = NoCommand \/ ~NodeOk(DefAt(d, a, k), a, k) }

\* Command::parse_from has returned
Validated == pc = "done" /\ out.op = "Command::parse_from"

-----------------------------------------------------------------------------
(* C14: validation succeeds exactly when every node of the chain, paired   *)
(* with the definition matched level by level, has only flags and props    *)
(* that resolve by primary name or alias, supplies every required prop     *)
(* under one of its names, and has either no subcommand or one whose name  *)
(* resolves to a child definition.                                         *)
C14_Validate ==
  Validated =>
    (out.tag = "Ok" <=>
       \A k \in 1..Len(Parsed) :
         /\ DefAt(cmd_def, Parsed, k) # NoCommand
         /\ NodeOk(DefAt(cmd_def, Parsed, k), Parsed, k))

\* accepted: a subcommand given by its alias, which supplies its required
\* prop by the alias only and gives no subcommand although its definition
\* has a child
C14_Witness ==
  /\ Validated /\ out.tag = "Ok"
  /\ Len(Parsed) = 2 /\ Parsed[2].name = <<"d">>
  /\ DefAt(cmd_def, Parsed, 2).props[1].required
  /\ DOMAIN Parsed[2].props = { <<"q">> }
  /\ DefAt(cmd_def, Parsed, 2).commands # <<>>

-----------------------------------------------------------------------------
(* C15: when the node validation stops at has all its flags and props      *)
(* recognized and lacks required props, the error is                       *)
(* MissingRequiredOptions with the primary name of the first of them in    *)
(* the order of the definition.                                            *)
C15_FirstMissing ==
  (Validated /\ Failing(cmd_def, Parsed) # {}) =>
    LET k == Least(Failing(cmd_def, Parsed))
        d == DefAt(cmd_def, Parsed, k)
    IN (UnknownFlags(d, Parsed[k]) = {} /\ UnknownProps(d, Parsed[k]) = {}
          /\ Unsupplied(d, Parsed[k]) # {}) =>
         /\ out.tag = "MissingRequiredOptions"
         /\ out.name = d.props[Least(Unsupplied(d, Parsed[k]))].names[1]

-----------------------------------------------------------------------------
\* the errors node k can give against its definition d: the first kind, in
\* the order flag, prop, required prop, subcommand, that has something to
\* report
NodeErrors(d, a, k) ==
  IF UnknownFlags(d, a[k]) # {}
  THEN { [tag |-> "UnrecognizedArgument", name |-> f, kind |-> "flag"] :
           f \in UnknownFlags(d, a[k]) }
  ELSE IF UnknownProps(d, a[k]) # {}
  THEN { [tag |-> "UnrecognizedArgument", name |-> p, kind |-> "option"] :
           p \in UnknownProps(d, a[k]) }
  ELSE IF Unsupplied(d, a[k]) # {}
  THEN { [tag |-> "MissingRequiredOptions", name |-> d.props[i].names[1], kind |-> "none"] :
           i \in Unsupplied(d, a[k]) }
  ELSE { [tag |-> "UnrecognizedArgument", name |-> a[k + 1].name, kind |-> "command"] }

\* the chain a without what lies below node k: of node k + 1 only the name
Cut(a, k) == IF k < Len(a) THEN SubSeq(a, 1, k) \o <<ArgsNode(a[k + 1].name)>> ELSE a

(* C16: when some node fails, the error is one of the shallowest failing   *)
(* node, of the first kind that node fails on in the order unrecognized    *)
(* flag, unrecognized prop, missing required prop, unrecognized            *)
(* subcommand; and validation gives the same on the chain cut below that   *)
(* node, so nothing deeper has a part in it.                               *)
C16_ShallowestFirst ==
  (Validated /\ Failing(cmd_def, Parsed) # {}) =>
    LET k == Least(Failing(cmd_def, Parsed)) IN
    /\ [tag |-> out.tag, name |-> out.name, kind |-> out.kind]
         \in NodeErrors(DefAt(cmd_def, Parsed, k), Parsed, k)
    /\ validate(cmd_def, Cut(Parsed, k), 1) = validate(cmd_def, Parsed, 1)

\* the root has an undefined flag, an undefined prop, lacks a required prop
\* and has an undefined subcommand: the flag is reported
C16_Witness ==
  /\ Validated /\ out.tag = "UnrecognizedArgument" /\ out.kind = "flag"
  /\ UnknownProps(cmd_def, Parsed[1]) # {}
  /\ Unsupplied(cmd_def, Parsed[1]) # {}
  /\ Len(Parsed) = 2 /\ UnknownCommand(cmd_def, Parsed, 1)

-----------------------------------------------------------------------------
(* C17: when Command::parse_from returns Ok, every node of the tree has    *)
(* as flags the primary names of the flags supplied, as props the primary  *)
(* names of the props supplied, each with the value supplied for it, and   *)
(* every subcommand node carries the primary name of its definition.       *)
C17_Canonical ==
  (Validated /\ out.tag = "Ok") =>
    /\ Len(out.tree) = Len(Parsed)
    /\ \A k \in 1..Len(Parsed) :
         LET d == DefAt(cmd_def, Parsed, k)
             node == Parsed[k]
             res == out.tree[k]
         IN /\ res.flags = { Canonical(d.flags, f) : f \in node.flags }
            /\ DOMAIN res.props = { Canonical(d.props, p) : p \in DOMAIN node.props }
            /\ \A p \in DOMAIN node.props : res.props[Canonical(d.props, p)] = node.props[p]
            /\ k > 1 => res.name = d.names[1]

-----------------------------------------------------------------------------
\* the nodes of the chain a whose flags hold "help" or "h"
HelpNodes(a) ==
  { k \in 1..Len(a) : <<"h", "e", "l", "p">> \in a[k].flags \/ <<"h">> \in a[k].flags }

(* C18: requested_help returns the name of the shallowest node whose flags *)
(* hold "help" or "h", and None exactly when no node has either.           *)
C18_RequestedHelp ==
  (pc = "done" /\ out.op = "requested_help") =>
    IF HelpNodes(cmd_args) = {} THEN out.tag = "None"
    ELSE out.tag = "Some" /\ out.name = cmd_args[Least(HelpNodes(cmd_args))].name

\* two nodes have a help flag, the deeper one only as "h", and the name of
\* the shallower one is returned
C18_Witness ==
  /\ pc = "done" /\ out.op = "requested_help" /\ out.tag = "Some"
  /\ Cardinality(HelpNodes(cmd_args)) = 2
  /\ <<"h">> \in cmd_args[Greatest(HelpNodes(cmd_args))].flags
  /\ out.name = cmd_args[Least(HelpNodes(cmd_args))].name
  /\ out.name # cmd_args[Greatest(HelpNodes(cmd_args))].name

-----------------------------------------------------------------------------
\* e without the whitespace around it
Trimmed(e) ==
  LET S == { k \in 1..Len(e) : e[k] # " " } IN
  IF S = {} THEN <<>> ELSE SubSeq(e, Least(S), Greatest(S))

\* e is a help argument
IsHelp(e) ==
  \/ Trimmed(e) = <<"-", "h">>
  \/ Trimmed(e) = <<"+", "h">>
  \/ Trimmed(e) = <<"-", "-", "h", "e", "l", "p">>
  \/ Trimmed(e) = <<"+", "h", "e", "l", "p">>

\* e is a subcommand name: not blank, no flag, no prop
IsWord(e) ==
  LET t == Trimmed(e) IN
  t # <<>> /\ t[1] # "+" /\ (t[1] = "=" \/ ~HasEq(t))

\* the subcommand names among inp[lo..hi], in order
RECURSIVE WordsBetween(_, _, _)
WordsBetween(inp, lo, hi) ==
  IF lo > hi THEN <<>>
  ELSE IF IsWord(inp[lo]) THEN <<Trimmed(inp[lo])>> \o WordsBetween(inp, lo + 1, hi)
  ELSE WordsBetween(inp, lo + 1, hi)

\* the elements from index lo on that are help arguments
HelpAt(inp, lo) == { j \in lo..Len(inp) : IsHelp(inp[j]) }

(* C19: the claim as stated.  CmdLine::parse_from returns Help whenever    *)
(* some element of the input is, once trimmed, one of -h, +h, --help,      *)
(* +help, and the path is the program name followed by the subcommand      *)
(* names before the first such element.                                    *)
C19_AsStated ==
  (pc = "done" /\ out.op = "CmdLine::parse_from" /\ HelpAt(input, 1) # {}) =>
    /\ out.tag = "Help"
    /\ out.path = <<input[1]>> \o WordsBetween(input, 2, Least(HelpAt(input, 1)) - 1)

(* C19, amended: the first element is the program name and is not looked   *)
(* at.  CmdLine::parse_from returns Help exactly when some element after   *)
(* the first is, once trimmed, one of -h, +h, --help, +help, whatever the  *)
(* other elements are; the path is the first element as written followed   *)
(* by the subcommand names between it and the first help element.          *)
C19_HelpPath ==
  (pc = "done" /\ out.op = "CmdLine::parse_from") =>
    /\ out.tag = "Help" <=> HelpAt(input, 2) # {}
    /\ HelpAt(input, 2) # {} =>
         out.path = <<input[1]>> \o WordsBetween(input, 2, Least(HelpAt(input, 2)) - 1)

\* Help was returned for a help argument written with whitespace around
\* it, after a subcommand and before another element
C19_Witness ==
  /\ pc = "done" /\ out.op = "CmdLine::parse_from" /\ out.tag = "Help"
  /\ Len(out.path) = 2
  /\ Least(HelpAt(input, 2)) < Len(input)
  /\ input[Least(HelpAt(input, 2))] # Trimmed(input[Least(HelpAt(input, 2))])

-----------------------------------------------------------------------------
(* C20: intercept_help writes the help and ends the process whenever some  *)
(* node of the chain, the root included, has a help flag, and the help     *)
(* written is that of the definition paired with the shallowest such node; *)
(* it returns only when no node has a help flag.                           *)
C20_HelpShown ==
  (pc \in {"done", "exit"} /\ out.op = "intercept_help") =>
    IF HelpNodes(cmd_args) = {} THEN out.tag = "return"
    ELSE /\ out.tag = "exit"
         /\ DefAt(cmd_def, cmd_args, Least(HelpNodes(cmd_args))) # NoCommand =>
              out.shown = DefAt(cmd_def, cmd_args, Least(HelpNodes(cmd_args)))

-----------------------------------------------------------------------------
\* the slots of a that hold an operand
Operands(a) == { j \in 1..Len(a) : a[j].kind = "Operand" }

\* the slot of a that holds the operand with the smallest position
FirstOperand(a) ==
  CHOOSE i \in Operands(a) : \A j \in Operands(a) : a[i].position <= a[j].position

(* C22: parse numbers the operands 0, 1, 2, ... in the order of the input; *)
(* in any bag state remove_operand() returns the text of the operand left  *)
(* with the smallest position and empties its slot only, so the other      *)
(* operands keep slot and position, and it returns None when no operand is *)
(* left.                                                                   *)
C22_OperandOrder ==
  /\ []((pc = "bag" /\ calls = 0) =>
          \A j \in Operands(args) :
            /\ args[j].position = Cardinality({ k \in Operands(args) : k < j })
            /\ args[j].value = Written(input)[j])
  /\ [][(pc = "bag" /\ IsCall /\ last'.op = "remove_operand") =>
          IF Operands(args) = {} THEN ~last'.ok /\ args' = args
          ELSE /\ last'.ok
               /\ last'.val = args[FirstOperand(args)].value
               /\ args' = [args EXCEPT ![FirstOperand(args)] = Empty]
       ]_vars

\* the second of three operands has just been returned, the third is still
\* there with position 2
C22_Witness ==
  /\ pc = "bag" /\ calls = 2 /\ last.op = "remove_operand" /\ last.ok
  /\ \E j \in 1..Len(args) :
       /\ Toks[j].kind = "Operand" /\ Toks[j].position = 1
       /\ args[j] = Empty /\ last.val = Toks[j].value
  /\ \E k \in Operands(args) : args[k].position = 2

-----------------------------------------------------------------------------
(* C23: a remove_flag that returns false, a remove_option or a             *)
(* remove_operand that returns None changes neither the tokens nor the     *)
(* ignored tail nor the program name; after a remove_option(n) that        *)
(* returned None with a flag n in the bag, remove_flag(n) returns true;    *)
(* and remove_flag changes no slot that holds an option.                   *)
C23_FailedCallsKeep ==
  [][(pc = "bag" /\ IsCall) =>
       /\ (last'.op \in {"remove_flag", "remove_option", "remove_operand"} /\ ~last'.ok) =>
            (args' = args /\ ignored' = ignored /\ program_name' = program_name)
       /\ (last.op = "remove_option" /\ ~last.ok /\ Flags(args, last.name) # {}
             /\ Calls("remove_flag", last.name)) => last'.ok
       /\ last'.op = "remove_flag" =>
            \A i \in 1..Len(args) : args[i].kind = "SwitchWithValue" => args'[i] = args[i]
    ]_vars

\* remove_option(n) has returned None on a flag n that has no value, and
\* the flag is still in the bag
C23_Witness ==
  /\ pc = "bag" /\ calls >= 1 /\ last.op = "remove_option" /\ ~last.ok
  /\ Flags(args, last.name) # {}
  /\ args = Toks

-----------------------------------------------------------------------------
\* slot i of a holds a flag named n whose next slot holds no operand
FlagAlone(a, n, i) ==
  /\ i \in Flags(a, n)
  /\ ~(i + 1 <= Len(a) /\ a[i + 1].kind = "Operand")

(* C24: the claim as stated.  In any bag state, when a flag n is in the    *)
(* bag and its next slot holds no operand (it never did, or the operand    *)
(* was consumed), remove_option(n) returns None.                           *)
C24_AsStated ==
  [][(pc = "bag" /\ IsCall /\ last'.op = "remove_option") =>
       \A i \in 1..Len(args) : FlagAlone(args, last'.name, i) => ~last'.ok
    ]_vars

(* C24, amended: remove_option(n) acts on the first token left that is     *)
(* named n.  When that token is a flag, the value can only be the operand  *)
(* in the very next slot: if that slot holds an operand, its text is       *)
(* returned and the two slots are emptied; if it holds none, never did or  *)
(* was consumed, the call returns None and changes nothing, whatever       *)
(* operands lie further on.  When that token is an option, its own value   *)
(* is returned and only its slot is emptied.                               *)
C24_PairsNeighbour ==
  [][(pc = "bag" /\ IsCall /\ last'.op = "remove_option") =>
       LET S == Named(args, last'.name) IN
       IF S = {} THEN ~last'.ok /\ args' = args
       ELSE LET i == Least(S) IN
            IF args[i].kind = "SwitchWithValue"
            THEN last'.ok /\ last'.val = args[i].value /\ args' = [args EXCEPT ![i] = Empty]
            ELSE IF FlagAlone(args, last'.name, i)
            THEN ~last'.ok /\ args' = args
            ELSE /\ last'.ok
                 /\ last'.val = Toks[i + 1].value
                 /\ args' = [args EXCEPT ![i] = Empty, ![i + 1] = Empty]
    ]_vars

\* remove_option(n) has returned None: the operand that followed the flag
\* n was consumed before, and another operand lies further on
C24_Witness ==
  /\ pc = "bag" /\ calls >= 2 /\ last.op = "remove_option" /\ ~last.ok
  /\ \E i \in 1..Len(args) :
       /\ Named(args, last.name) # {} /\ i = Least(Named(args, last.name))
       /\ args[i].kind = "Switch"
       /\ i + 1 <= Len(args) /\ Toks[i + 1].kind = "Operand" /\ args[i + 1] = Empty
       /\ \E j \in (i + 2)..Len(args) : args[j].kind = "Operand"

-----------------------------------------------------------------------------
(* What a command line says to Args::parse_from, read off the characters   *)
(* of its elements.                                                        *)

\* e is one of the help spellings -h, --help
IsArgsHelp(e) ==
  Trimmed(e) = <<"-", "h">> \/ Trimmed(e) = <<"-", "-", "h", "e", "l", "p">>

\* e is written +flag
IsFlagText(e) == Trimmed(e) # <<>> /\ Trimmed(e)[1] = "+"

\* e opens a node: not blank, no help spelling, no "+" in front, no "="
\* past its first character
Opens(e) ==
  LET t == Trimmed(e) IN
  /\ t # <<>> /\ ~IsArgsHelp(e) /\ t[1] # "+"
  /\ (t[1] = "=" \/ ~HasEq(t))

\* e is written key=value
IsPropText(e) ==
  LET t == Trimmed(e) IN
  t # <<>> /\ ~IsArgsHelp(e) /\ t[1] # "+" /\ t[1] # "=" /\ HasEq(t)

FirstEq(t) == Least({ k \in 1..Len(t) : t[k] = "=" })
KeyOf(e) == SubSeq(Trimmed(e), 1, FirstEq(Trimmed(e)) - 1)
ValueOf(e) == SubSeq(Trimmed(e), FirstEq(Trimmed(e)) + 1, Len(Trimmed(e)))

\* the elements after the first that open a node
Openers(inp) == { j \in 2..Len(inp) : Opens(inp[j]) }

\* the level element j is written at: one plus the nodes opened before it
Level(inp, j) == 1 + Cardinality({ i \in Openers(inp) : i < j })

\* the elements written at level k that open no node
Here(inp, k) == { j \in 2..Len(inp) : ~Opens(inp[j]) /\ Level(inp, j) = k }

(* C21: Args::parse_from gives a chain of one node plus one node for each  *)
(* element after the first that is not blank, not a help spelling, does    *)
(* not start with "+" and has no "=" past its first character; the root    *)
(* carries the first element as name and each other node the trimmed       *)
(* element that opened it; each node holds exactly the flags written       *)
(* between its opening element and the next one (with "help" for -h and    *)
(* --help) and exactly the keys written there, each key with the value     *)
(* written last for it.                                                    *)
C21_Chain ==
  pc = "args" =>
    /\ Len(cmd_args) = 1 + Cardinality(Openers(input))
    /\ cmd_args[1].name = (IF input = <<>> THEN <<>> ELSE input[1])
    /\ \A j \in Openers(input) : cmd_args[Level(input, j) + 1].name = Trimmed(input[j])
    /\ \A k \in 1..Len(cmd_args) :
         LET here == Here(input, k) IN
         /\ cmd_args[k].flags =
              { SubSeq(Trimmed(input[j]), 2, Len(Trimmed(input[j]))) :
                  j \in { i \in here : IsFlagText(input[i]) } }
                \cup (IF \E j \in here : IsArgsHelp(input[j])
                      THEN { <<"h", "e", "l", "p">> } ELSE {})
         /\ DOMAIN cmd_args[k].props = { KeyOf(input[j]) : j \in { i \in here : IsPropText(input[i]) } }
         /\ \A j \in here :
              (/\ IsPropText(input[j])
               /\ \A i \in here : (i > j /\ IsPropText(input[i])) => KeyOf(input[i]) # KeyOf(input[j]))
                 => cmd_args[k].props[KeyOf(input[j])] = ValueOf(input[j])

\* a chain of three nodes: the second holds a flag or a prop, and the third
\* was opened by the element that starts with "="
C21_Witness ==
  /\ pc = "args" /\ Len(cmd_args) = 3
  /\ cmd_args[1].flags = {} /\ DOMAIN cmd_args[1].props = {}
  /\ cmd_args[2].flags # {} \/ DOMAIN cmd_args[2].props # {}
  /\ cmd_args[3].name = <<"=", "1">>

====
